---- MODULE Spec2Model ----
(***************************************************************************)
(* Model of scripts/convert-pack-format.py: the conversion of a template   *)
(* pack from the keyed-object format to the array format.                  *)
(*                                                                         *)
(* JSON values, as json.load builds them, are records [t, v]:              *)
(*   t = "null"  v = <<>>                                                  *)
(*   t = "num"   v = <<digits>>              (a number, as a token)        *)
(*   t = "str"   v = sequence of tokens      (the string is their          *)
(*                                            concatenation)               *)
(*   t = "list"  v = sequence of values                                    *)
(*   t = "dict"  v = sequence of <<key, value>> pairs, keys distinct, in   *)
(*                   insertion order (Python dicts keep insertion order)   *)
(* A call that can raise returns [ok |-> TRUE, val |-> value] or           *)
(* [ok |-> FALSE, exc |-> exception name].                                 *)
(***************************************************************************)
EXTENDS Integers, Sequences, FiniteSets, TLC

\* ------------------------------------------------------------ bounds
\* Longest legacy mapping handed to a conversion function on its own.
MaxEntries == 2
\* Most fields of the one richly populated schema of such a mapping.
MaxFields == 2
\* Longest legacy mapping inside a pack document of a whole run.
MaxPackEntries == 1

\* ------------------------------------------------------- JSON values
JNull == [t |-> "null", v |-> <<>>]
JNum(n) == [t |-> "num", v |-> <<n>>]
JStr(tokens) == [t |-> "str", v |-> tokens]
JList(items) == [t |-> "list", v |-> items]
JDict(pairs) == [t |-> "dict", v |-> pairs]

\* What a value that was never assigned holds.
Unset == [t |-> "unset", v |-> <<>>]

Ok(x) == [ok |-> TRUE, val |-> x, exc |-> "none"]
Raise(e) == [ok |-> FALSE, val |-> Unset, exc |-> e]

\* isinstance(x, dict)
IsDict(x) == x.t = "dict"

\* The keys of a dict, in iteration order.
DictKeys(d) == [i \in 1..Len(d.v) |-> d.v[i][1]]

\* key in d, for a dict d.
HasKey(d, k) == \E i \in 1..Len(d.v) : d.v[i][1] = k

\* d[k] for a key that is present.
DictValue(d, k) == d.v[CHOOSE i \in 1..Len(d.v) : d.v[i][1] = k][2]

\* d.get(k, default)
DictGet(d, k, default) == IF HasKey(d, k) THEN DictValue(d, k) ELSE default

\* d[k] = x: an existing key keeps its place, a new key goes last.
DictSet(d, k, x) ==
    IF HasKey(d, k)
    THEN JDict([i \in 1..Len(d.v) |-> IF d.v[i][1] = k THEN <<k, x>> ELSE d.v[i]])
    ELSE JDict(Append(d.v, <<k, x>>))

\* needle is a contiguous part of hay (str.__contains__, on tokens).
IsSubstring(needle, hay) ==
    \E i \in 0..(Len(hay) - Len(needle)) :
        \A j \in 1..Len(needle) : hay[i + j] = needle[j]

\* `k in x` for a str k: a key of a dict, a substring of a str, an element
\* of a list; a number or None is not iterable (TypeError).
PyContains(k, x) ==
    CASE x.t = "dict" -> Ok(HasKey(x, k))
      [] x.t = "str" -> Ok(IsSubstring(<<k>>, x.v))
      [] x.t = "list" -> Ok(\E i \in 1..Len(x.v) : x.v[i] = JStr(<<k>>))
      [] OTHER -> Raise("TypeError")

\* `x[k]` for a str k: the value of a dict (KeyError when missing); str and
\* list indices must be integers, a number or None is not subscriptable.
PySubscript(x, k) ==
    CASE x.t = "dict" -> IF HasKey(x, k) THEN Ok(DictValue(x, k)) ELSE Raise("KeyError")
      [] OTHER -> Raise("TypeError")

\* len(x)
PyLen(x) ==
    CASE x.t \in {"dict", "list", "str"} -> Ok(Len(x.v))
      [] OTHER -> Raise("TypeError")

\* `not x` for a dict: the empty dict is falsy.
PyNot(x) == Len(x.v) = 0

\* ------------------------------------------------ conversion functions
\* if field in schema: new_schema[field] = schema[field]
\* acc is the call's state so far: Ok(new_schema), or the exception raised.
CopyIfPresent(acc, schema, field) ==
    IF ~acc.ok THEN acc
    ELSE LET c == PyContains(field, schema) IN
         IF ~c.ok THEN c
         ELSE IF ~c.val THEN acc
         ELSE LET s == PySubscript(schema, field) IN
              IF ~s.ok THEN s ELSE Ok(DictSet(acc.val, field, s.val))

\* new_schema = {"name": name}
NewSchema(name) == JDict(<< <<"name", name>> >>)

\* ObjectSchemaEntry without its third copy (`properties` forgotten).
ObjectSchemaEntry_NoProperties(name, schema) ==
    CopyIfPresent(
        CopyIfPresent(Ok(NewSchema(JStr(<<name>>))), schema, "label"),
        schema, "description")

\* One iteration of convert_object_schemas' loop, up to result.append.
ObjectSchemaEntry(name, schema) ==
    CopyIfPresent(
        CopyIfPresent(
            CopyIfPresent(Ok(NewSchema(JStr(<<name>>))), schema, "label"),
            schema, "description"),
        schema, "properties")

\* One iteration of convert_relationship_schemas' loop.
RelationshipSchemaEntry(name, schema) ==
    CopyIfPresent(
        CopyIfPresent(
            CopyIfPresent(
                CopyIfPresent(Ok(NewSchema(JStr(<<name>>))), schema, "label"),
                schema, "description"),
            schema, "sourceTypes"),
        schema, "targetTypes")

\* ObjectLoop with each new schema put at the front of result.
RECURSIVE ObjectLoop_Prepends(_, _, _)
ObjectLoop_Prepends(items, i, result) ==
    IF i > Len(items) THEN Ok(JList(result))
    ELSE LET e == ObjectSchemaEntry(items[i][1], items[i][2]) IN
         IF ~e.ok THEN e ELSE ObjectLoop_Prepends(items, i + 1, <<e.val>> \o result)

\* The loop of convert_object_schemas over old_schemas.items() from entry i,
\* result being the list built so far.
RECURSIVE ObjectLoop(_, _, _)
ObjectLoop(items, i, result) ==
    IF i > Len(items) THEN Ok(JList(result))
    ELSE LET e == ObjectSchemaEntry(items[i][1], items[i][2]) IN
         IF ~e.ok THEN e ELSE ObjectLoop(items, i + 1, Append(result, e.val))

\* The loop of convert_relationship_schemas, likewise.
RECURSIVE RelationshipLoop(_, _, _)
RelationshipLoop(items, i, result) ==
    IF i > Len(items) THEN Ok(JList(result))
    ELSE LET e == RelationshipSchemaEntry(items[i][1], items[i][2]) IN
         IF ~e.ok THEN e ELSE RelationshipLoop(items, i + 1, Append(result, e.val))

convert_object_schemas(old_schemas) ==
    IF PyNot(old_schemas) THEN Ok(JList(<<>>))
    ELSE ObjectLoop(old_schemas.v, 1, <<>>)

convert_relationship_schemas(old_schemas) ==
    IF PyNot(old_schemas) THEN Ok(JList(<<>>))
    ELSE RelationshipLoop(old_schemas.v, 1, <<>>)

\* ------------------------------------------------------------- paths
\* A path is [parent |-> directory names, name |-> tokens of the final
\* component]; "." is a token of its own, so that a name's suffix is found
\* the way pathlib finds it.
MkPath(parent, name) == [parent |-> parent, name |-> name]
NoPath == MkPath(<<>>, <<>>)

\* name.rfind('.'), 1-based over tokens, 0 when there is no dot.
LastDot(name) ==
    IF \E i \in 1..Len(name) : name[i] = "."
    THEN CHOOSE i \in 1..Len(name) :
            name[i] = "." /\ \A j \in (i + 1)..Len(name) : name[j] # "."
    ELSE 0

\* pathlib's PurePath.suffix: the part from the last dot, unless the dot
\* leads or ends the name.
PathSuffix(p) ==
    LET i == LastDot(p.name) IN
    IF 1 < i /\ i < Len(p.name) THEN SubSeq(p.name, i, Len(p.name)) ELSE <<>>

\* pathlib's PurePath.stem: the name without its suffix.
PathStem(p) ==
    LET i == LastDot(p.name) IN
    IF 1 < i /\ i < Len(p.name) THEN SubSeq(p.name, 1, i - 1) ELSE p.name

\* DefaultOutputPath giving the output the input's suffix.
DefaultOutputPath_KeepSuffix(input) ==
    MkPath(input.parent, PathStem(input) \o <<"-converted">> \o PathSuffix(input))

\* input_path.parent / f"{input_path.stem}-converted.json"
DefaultOutputPath(input) ==
    MkPath(input.parent, PathStem(input) \o <<"-converted", ".", "json">>)

\* ------------------------------------------------------- file contents
\* A file holds a JSON document (its value), or text that is not JSON;
\* a path with no file is Absent.
Absent == [t |-> "absent", v |-> <<>>]
Garbage == [t |-> "garbage", v |-> <<>>]

OBJ == "object_type_schemas"
REL == "relationship_type_schemas"

\* ---------------------------------------------------------- the inputs
Keys == {"A", "B", "C"}
PackKeys == {"A", "B"}

\* Sequences of distinct keys, of length at most n.
KeySeqs(keys, n) ==
    {ks \in UNION {[1..m -> keys] : m \in 0..n} :
        \A i \in 1..Len(ks) : \A j \in 1..Len(ks) : i # j => ks[i] # ks[j]}

\* The value a schema field has when present.
FieldValue(f) ==
    CASE f = "label" -> JStr(<<"Person">>)
      [] f = "description" -> JStr(<<"a ", "label">>)
      [] f = "properties" -> JDict(<< <<"age", JStr(<<"number">>)>> >>)
      [] f = "sourceTypes" -> JList(<<JStr(<<"Person">>)>>)
      [] f = "targetTypes" -> JList(<<JStr(<<"Person">>), JStr(<<"Org">>)>>)
      [] f = "name" -> JStr(<<"Other">>)
      [] OTHER -> JNum("7")

SchemaFields == <<"name", "label", "extra", "description", "properties",
                  "sourceTypes", "targetTypes">>

\* The schema holding the fields at positions S of SchemaFields, in order.
RECURSIVE SchemaOf(_, _)
SchemaOf(S, i) ==
    IF i > Len(SchemaFields) THEN <<>>
    ELSE (IF i \in S THEN << <<SchemaFields[i], FieldValue(SchemaFields[i])>> >> ELSE <<>>)
         \o SchemaOf(S, i + 1)

\* Entry values that are not mappings.
NonMappings ==
    { JNull, JNum("5"),
      JStr(<<"plain">>), JStr(<<"my", "label", "s">>), JStr(<<"properties">>),
      JStr(<<"targetTypes">>),
      JList(<<>>), JList(<<JStr(<<"x">>)>>), JList(<<JStr(<<"description">>)>>),
      JList(<<JStr(<<"sourceTypes">>), JNum("1")>>) }

RichEntries ==
    {JDict(SchemaOf(S, 1)) :
        S \in {T \in SUBSET (1..Len(SchemaFields)) : Cardinality(T) <= MaxFields}}
    \cup NonMappings

PlainEntries == {JDict(<<>>), JDict(SchemaOf({2, 3}, 1)), JStr(<<"plain">>)}

\* The legacy mappings a conversion function is applied to: at most
\* MaxEntries entries, one of them drawn from RichEntries.
LegacyMappings ==
    {JDict(<<>>)} \cup
    {JDict([i \in 1..Len(ks) |-> <<ks[i], IF i = p THEN r ELSE pl[i]>>]) :
        <<ks, p, r, pl>> \in
            {q \in KeySeqs(Keys, MaxEntries) \X (1..MaxEntries) \X RichEntries
                   \X [1..MaxEntries -> PlainEntries] :
                q[2] <= Len(q[1])}}

\* The values of a pack's collection field: legacy mappings of at most
\* MaxPackEntries entries, current-shape sequences, and other JSON values.
PackEntryValues == {JDict(SchemaOf({2, 3}, 1)), JNull, JStr(<<"plain">>)}

PackMappings ==
    {JDict([i \in 1..Len(ks) |-> <<ks[i], vs[i]>>]) :
        <<ks, vs>> \in
            {q \in KeySeqs(PackKeys, MaxPackEntries) \X
                   UNION {[1..m -> PackEntryValues] : m \in 0..MaxPackEntries} :
                Len(q[1]) = Len(q[2])}}

PackSequences ==
    {JList(<<>>), JList(<<JNum("1"), JDict(SchemaOf({1, 3, 5}, 1))>>)}

PackOthers == {JNull, JNum("3"), JStr(<<"x">>)}

\* Absent stands for a field the document does not have.
PackCollections == PackMappings \cup PackSequences \cup PackOthers \cup {Absent}

\* The fields of a document before and after its two collections.
Frames ==
    { [head |-> << <<"name", JStr(<<"P">>)>>, <<"version", JStr(<<"1">>)>> >>,
       tail |-> << <<"homepage", JDict(<< <<"url", JStr(<<"u">>)>> >>)>> >>],
      [head |-> << <<"name", JStr(<<"P">>)>> >>, tail |-> <<>>],
      [head |-> << <<"version", JNum("2")>> >>, tail |-> << <<"tags", JList(<<>>)>> >>],
      [head |-> <<>>, tail |-> <<>>] }

Field(k, x) == IF x = Absent THEN <<>> ELSE << <<k, x>> >>

PackDocs ==
    {JDict(f.head \o Field(OBJ, o) \o Field(REL, r) \o f.tail) :
        <<f, o, r>> \in Frames \X PackCollections \X PackCollections}

\* What the input path may hold.
InputContents == PackDocs \cup {Absent, Garbage, JList(<<>>)}

\* What the output path may hold before the run.
Stale == JStr(<<"stale">>)

Program == MkPath(<<>>, <<"convert-pack-format", ".", "py">>)
InputPaths ==
    { MkPath(<<>>, <<"pack", ".", "json">>),
      MkPath(<<"packs">>, <<"pack", ".", "yaml">>),
      MkPath(<<"packs">>, <<"pack">>),
      MkPath(<<>>, <<".", "pack">>) }
ExplicitOutputPaths == {MkPath(<<"out">>, <<"new", ".", "json">>)}

\* sys.argv: the program, then the arguments given.
Argvs ==
    {<<Program>>} \cup {<<Program, i>> : i \in InputPaths}
    \cup {<<Program, i, o>> : <<i, o>> \in
            {MkPath(<<>>, <<"pack", ".", "json">>)} \X
            (ExplicitOutputPaths \cup {MkPath(<<>>, <<"pack", ".", "json">>)})}

\* ------------------------------------------------------------ the state
VARIABLES
    argv,         \* sys.argv
    fs,           \* the files: path -> contents
    fs0,          \* the files as they were when the run began (history)
    pc,           \* where main is
    input_path,   \* main's input_path
    output_path,  \* main's output_path
    pack,         \* convert_pack's pack, main's converted
    stdout,       \* the lines printed
    exit_status,  \* the process's exit status, -1 while it runs
    failure,      \* the exception that ended the run, "none" if none did
    failed_at,    \* the step it was raised in
    reads,        \* opens of the input for reading
    writes,       \* opens of the output for writing
    conv_in,      \* the argument of a conversion function called on its own
    conv_out,     \* its result
    conv_pc       \* which conversion function was called

vars == <<argv, fs, fs0, pc, input_path, output_path, pack, stdout,
          exit_status, failure, failed_at, reads, writes, conv_in, conv_out, conv_pc>>

mainVars == <<argv, fs, fs0, pc, input_path, output_path, pack, stdout,
              exit_status, failure, failed_at, reads, writes>>
convVars == <<conv_in, conv_out, conv_pc>>

\* output_path as main sets it (lines 103-106).
ResolveOutputPath(a) == IF Len(a) > 2 THEN a[3] ELSE DefaultOutputPath(a[2])

KnownPaths ==
    InputPaths \cup ExplicitOutputPaths \cup {DefaultOutputPath(i) : i \in InputPaths}

InitFiles(a, doc, pre) ==
    [p \in KnownPaths |->
        IF Len(a) >= 2 /\ p = a[2] THEN doc
        ELSE IF Len(a) >= 2 /\ p = ResolveOutputPath(a) THEN pre
        ELSE Absent]

Init ==
    /\ argv \in Argvs
    /\ \E doc \in InputContents, pre \in {Absent, Stale} : fs = InitFiles(argv, doc, pre)
    /\ fs0 = fs
    /\ pc = "main"
    /\ input_path = NoPath
    /\ output_path = NoPath
    /\ pack = Unset
    /\ stdout = <<>>
    /\ exit_status = -1
    /\ failure = "none"
    /\ failed_at = "none"
    /\ reads = 0
    /\ writes = 0
    /\ conv_in = Unset
    /\ conv_out = Raise("none")
    /\ conv_pc = "off"

\* A line printed: what it says and the count it reports (-1: none).
Line(tag, n) == [line |-> tag, n |-> n]

\* The process ends with `status` after printing `lines`; `how` is the
\* exception that ended it ("SystemExit" for sys.exit, "none" for a return).
Exit(status, how, lines) ==
    /\ pc' = "exit"
    /\ exit_status' = status
    /\ failure' = how
    /\ failed_at' = IF how = "none" THEN "none" ELSE pc
    /\ stdout' = stdout \o lines

\* An exception nobody catches: a traceback and exit status 1.
Uncaught(how, lines) == Exit(1, how, lines)

\* What an inspection leaves: the document and the line it printed.
Inspected(pk, line) == [pack |-> pk, line |-> line]

\* "Converted N ... types", N being len() of the converted list.
ConvertedLine(converted) == Line("converted", Len(converted.v))

\* "Already in array format, skipping"
Skipped == Line("already_array", -1)

\* InspectObjects building a new document from the collections alone.
InspectObjects_DropsOthers(pk) ==
    IF ~IsDict(pk) THEN Raise("AttributeError")
    ELSE LET old_obj_schemas == DictGet(pk, OBJ, JDict(<<>>)) IN
         IF IsDict(old_obj_schemas)
         THEN LET r == convert_object_schemas(old_obj_schemas) IN
              IF r.ok
              THEN Ok(Inspected(DictSet(JDict(Field(REL, DictGet(pk, REL, Absent))),
                                        OBJ, r.val), ConvertedLine(r.val)))
              ELSE r
         ELSE Ok(Inspected(pk, Skipped))

\* InspectObjects storing [] on the skip branch.
InspectObjects_ResetsSequence(pk) ==
    IF ~IsDict(pk) THEN Raise("AttributeError")
    ELSE LET old_obj_schemas == DictGet(pk, OBJ, JDict(<<>>)) IN
         IF IsDict(old_obj_schemas)
         THEN LET r == convert_object_schemas(old_obj_schemas) IN
              IF r.ok THEN Ok(Inspected(DictSet(pk, OBJ, r.val), ConvertedLine(r.val)))
              ELSE r
         ELSE Ok(Inspected(DictSet(pk, OBJ, JList(<<>>)), Skipped))

\* InspectObjects with pack.get(key) in place of pack.get(key, {}).
InspectObjects_NoDefault(pk) ==
    IF ~IsDict(pk) THEN Raise("AttributeError")
    ELSE LET old_obj_schemas == DictGet(pk, OBJ, JNull) IN
         IF IsDict(old_obj_schemas)
         THEN LET r == convert_object_schemas(old_obj_schemas) IN
              IF r.ok THEN Ok(Inspected(DictSet(pk, OBJ, r.val), ConvertedLine(r.val)))
              ELSE r
         ELSE Ok(Inspected(pk, Skipped))

\* Lines 73-79: pack after the inspection of object_type_schemas, or the
\* exception raised (pack.get on a document that is not a dict).
InspectObjects(pk) ==
    IF ~IsDict(pk) THEN Raise("AttributeError")
    ELSE LET old_obj_schemas == DictGet(pk, OBJ, JDict(<<>>)) IN
         IF IsDict(old_obj_schemas)
         THEN LET r == convert_object_schemas(old_obj_schemas) IN
              IF r.ok THEN Ok(Inspected(DictSet(pk, OBJ, r.val), ConvertedLine(r.val)))
              ELSE r
         ELSE Ok(Inspected(pk, Skipped))

\* Lines 81-87, for relationship_type_schemas.
InspectRelationships(pk) ==
    IF ~IsDict(pk) THEN Raise("AttributeError")
    ELSE LET old_rel_schemas == DictGet(pk, REL, JDict(<<>>)) IN
         IF IsDict(old_rel_schemas)
         THEN LET r == convert_relationship_schemas(old_rel_schemas) IN
              IF r.ok THEN Ok(Inspected(DictSet(pk, REL, r.val), ConvertedLine(r.val)))
              ELSE r
         ELSE Ok(Inspected(pk, Skipped))

\* json.dump(pack, f, indent=2): the text written denotes the value dumped;
\* a file's contents are modelled by the value its text denotes.
JsonDump(pk) == pk

\* SummaryFailure with name and version read by .get, which never raises.
SummaryFailure_Lenient(converted) ==
    IF ~PySubscript(converted, OBJ).ok THEN PySubscript(converted, OBJ).exc
    ELSE IF ~PyLen(PySubscript(converted, OBJ).val).ok
         THEN PyLen(PySubscript(converted, OBJ).val).exc
    ELSE IF ~PySubscript(converted, REL).ok THEN PySubscript(converted, REL).exc
    ELSE IF ~PyLen(PySubscript(converted, REL).val).ok
         THEN PyLen(PySubscript(converted, REL).val).exc
    ELSE "none"

\* Lines 115-119: the first exception the summary raises, "none" if none.
SummaryFailure(converted) ==
    IF ~PySubscript(converted, "name").ok THEN PySubscript(converted, "name").exc
    ELSE IF ~PySubscript(converted, "version").ok
         THEN PySubscript(converted, "version").exc
    ELSE IF ~PySubscript(converted, OBJ).ok THEN PySubscript(converted, OBJ).exc
    ELSE IF ~PyLen(PySubscript(converted, OBJ).val).ok
         THEN PyLen(PySubscript(converted, OBJ).val).exc
    ELSE IF ~PySubscript(converted, REL).ok THEN PySubscript(converted, REL).exc
    ELSE IF ~PyLen(PySubscript(converted, REL).val).ok
         THEN PyLen(PySubscript(converted, REL).val).exc
    ELSE "none"

\* ---------------------------------------------------------- the actions
\* main, lines 98-106: the argument check and the two paths.
CheckArgs ==
    /\ pc = "main"
    /\ IF Len(argv) < 2
       THEN /\ Exit(1, "SystemExit", <<Line("usage", -1)>>)
            /\ UNCHANGED <<input_path, output_path>>
       ELSE /\ input_path' = argv[2]
            /\ output_path' = ResolveOutputPath(argv)
            /\ pc' = "exists"
            /\ UNCHANGED <<exit_status, failure, failed_at, stdout>>
    /\ UNCHANGED <<argv, fs, fs0, pack, reads, writes>>
    /\ UNCHANGED convVars

\* CheckExists without the test: main goes on to convert_pack.
CheckExists_NoCheck ==
    /\ pc = "exists"
    /\ pc' = "read"
    /\ UNCHANGED <<exit_status, failure, failed_at, stdout>>
    /\ UNCHANGED <<argv, fs, fs0, input_path, output_path, pack, reads, writes>>
    /\ UNCHANGED convVars

\* main, lines 108-110: input_path.exists().
CheckExists ==
    /\ pc = "exists"
    /\ IF fs[input_path] = Absent
       THEN Exit(1, "SystemExit", <<Line("error_not_found", -1)>>)
       ELSE /\ pc' = "read"
            /\ UNCHANGED <<exit_status, failure, failed_at, stdout>>
    /\ UNCHANGED <<argv, fs, fs0, input_path, output_path, pack, reads, writes>>
    /\ UNCHANGED convVars

\* convert_pack, lines 69-71: open the input and json.load it.
ReadPack ==
    /\ pc = "read"
    /\ IF fs[input_path] = Absent
       THEN /\ Uncaught("FileNotFoundError", <<Line("reading", -1)>>)
            /\ UNCHANGED <<pack, reads>>
       ELSE /\ reads' = reads + 1
            /\ IF fs[input_path] = Garbage
               THEN /\ Uncaught("JSONDecodeError", <<Line("reading", -1)>>)
                    /\ UNCHANGED pack
               ELSE /\ pack' = fs[input_path]
                    /\ pc' = "convert_objects"
                    /\ stdout' = Append(stdout, Line("reading", -1))
                    /\ UNCHANGED <<exit_status, failure, failed_at>>
    /\ UNCHANGED <<argv, fs, fs0, input_path, output_path, writes>>
    /\ UNCHANGED convVars

\* convert_pack, lines 73-79.
ConvertObjects ==
    /\ pc = "convert_objects"
    /\ LET r == InspectObjects(pack) IN
       IF ~r.ok
       THEN /\ Uncaught(r.exc, <<Line("converting_objects", -1)>>)
            /\ UNCHANGED pack
       ELSE /\ pack' = r.val.pack
            /\ pc' = "convert_relationships"
            /\ stdout' = stdout \o <<Line("converting_objects", -1), r.val.line>>
            /\ UNCHANGED <<exit_status, failure, failed_at>>
    /\ UNCHANGED <<argv, fs, fs0, input_path, output_path, reads, writes>>
    /\ UNCHANGED convVars

\* convert_pack, lines 81-87.
ConvertRelationships ==
    /\ pc = "convert_relationships"
    /\ LET r == InspectRelationships(pack) IN
       IF ~r.ok
       THEN /\ Uncaught(r.exc, <<Line("converting_relationships", -1)>>)
            /\ UNCHANGED pack
       ELSE /\ pack' = r.val.pack
            /\ pc' = "write"
            /\ stdout' = stdout \o <<Line("converting_relationships", -1), r.val.line>>
            /\ UNCHANGED <<exit_status, failure, failed_at>>
    /\ UNCHANGED <<argv, fs, fs0, input_path, output_path, reads, writes>>
    /\ UNCHANGED convVars

\* convert_pack, lines 89-94: the whole document goes to output_path.
WritePack ==
    /\ pc = "write"
    /\ fs' = [fs EXCEPT ![output_path] = JsonDump(pack)]
    /\ writes' = writes + 1
    /\ stdout' = stdout \o <<Line("writing", -1), Line("complete", -1)>>
    /\ pc' = "validate"
    /\ UNCHANGED <<argv, fs0, input_path, output_path, pack, exit_status,
                   failure, failed_at, reads>>
    /\ UNCHANGED convVars

\* main, lines 114-119: the summary, then the end of main.
Validate ==
    /\ pc = "validate"
    /\ IF SummaryFailure(pack) = "none"
       THEN Exit(0, "none", <<Line("validation", -1)>>)
       ELSE Uncaught(SummaryFailure(pack), <<Line("validation", -1)>>)
    /\ UNCHANGED <<argv, fs, fs0, input_path, output_path, pack, reads, writes>>
    /\ UNCHANGED convVars

Next ==
    \/ CheckArgs
    \/ CheckExists
    \/ ReadPack
    \/ ConvertObjects
    \/ ConvertRelationships
    \/ WritePack
    \/ Validate

Spec == Init /\ [][Next]_vars

\* ---------------------------------- a conversion function on its own
ConvInit ==
    /\ conv_in \in LegacyMappings
    /\ conv_out = Raise("none")
    /\ conv_pc = "ready"
    /\ argv = <<Program>>
    /\ fs = [p \in KnownPaths |-> Absent]
    /\ fs0 = fs
    /\ pc = "off"
    /\ input_path = NoPath
    /\ output_path = NoPath
    /\ pack = Unset
    /\ stdout = <<>>
    /\ exit_status = -1
    /\ failure = "none"
    /\ failed_at = "none"
    /\ reads = 0
    /\ writes = 0

CallConvertObjectSchemas ==
    /\ conv_pc = "ready"
    /\ conv_out' = convert_object_schemas(conv_in)
    /\ conv_pc' = "object"
    /\ UNCHANGED conv_in
    /\ UNCHANGED mainVars

CallConvertRelationshipSchemas ==
    /\ conv_pc = "ready"
    /\ conv_out' = convert_relationship_schemas(conv_in)
    /\ conv_pc' = "relationship"
    /\ UNCHANGED conv_in
    /\ UNCHANGED mainVars

ConvNext == CallConvertObjectSchemas \/ CallConvertRelationshipSchemas

SpecConv == ConvInit /\ [][ConvNext]_vars

\* =============================================================== claims
\* The entries of a dict are all dicts.
AllMappings(d) == \A i \in 1..Len(d.v) : IsDict(d.v[i][2])

\* The keys of a dict, as a set.
KeySet(d) == {d.v[i][1] : i \in 1..Len(d.v)}

Called == conv_pc \in {"object", "relationship"}

\* C1: convertObjectSchemas(M) and convertRelationshipSchemas(M) return, for
\* a mapping M of mappings (the empty one included), a sequence as long as
\* M has keys whose i-th element's `name` is M's i-th key; whenever either
\* returns at all, its result has that length and those names.
C1_KeyNamePreservation ==
    Called =>
        /\ AllMappings(conv_in) => conv_out.ok
        /\ conv_out.ok =>
            /\ conv_out.val.t = "list"
            /\ Len(conv_out.val.v) = Len(conv_in.v)
            /\ \A i \in 1..Len(conv_in.v) :
                 /\ IsDict(conv_out.val.v[i])
                 /\ PySubscript(conv_out.val.v[i], "name")
                        = Ok(JStr(<<conv_in.v[i][1]>>))

\* C1's case: a two-entry mapping of mappings, keys not in sorted order,
\* converted by convert_object_schemas.
C1_Witness ==
    /\ conv_pc = "object"
    /\ conv_out.ok
    /\ AllMappings(conv_in)
    /\ DictKeys(conv_in) = <<"C", "A">>
    /\ Len(conv_out.val.v) = 2

\* The fields each conversion copies, as the contract lists them.
AllowList == [object |-> {"label", "description", "properties"},
              relationship |-> {"label", "description", "sourceTypes", "targetTypes"}]

\* Element e is what the contract makes of entry (k, s) under allow-list A.
ConvertedAs(e, k, s, A) ==
    /\ IsDict(e)
    /\ Cardinality(KeySet(e)) = Len(e.v)
    /\ KeySet(e) = {"name"} \cup {f \in A : HasKey(s, f)}
    /\ DictValue(e, "name") = JStr(<<k>>)
    /\ \A f \in A : HasKey(s, f) => DictValue(e, f) = DictValue(s, f)

\* C2: for every entry (k, s) with s a mapping, the converted element has
\* exactly the fields name (= k) and the allow-listed fields present in s,
\* with s's values; nothing else of s appears.
C2_FieldAllowList ==
    (Called /\ conv_out.ok) =>
        \A i \in 1..Len(conv_in.v) :
            IsDict(conv_in.v[i][2]) =>
                ConvertedAs(conv_out.val.v[i], conv_in.v[i][1], conv_in.v[i][2],
                            AllowList[conv_pc])

\* C2's case: a relationship entry holding `properties` and `targetTypes`:
\* the first is dropped, the second copied.
C2_Witness ==
    /\ conv_pc = "relationship"
    /\ conv_out.ok
    /\ \E i \in 1..Len(conv_in.v) :
         /\ IsDict(conv_in.v[i][2])
         /\ KeySet(conv_in.v[i][2]) = {"properties", "targetTypes"}
         /\ KeySet(conv_out.val.v[i]) = {"name", "targetTypes"}

\* The document the run was given, and the one it wrote.
InputDoc == fs0[input_path]
WrittenDoc == fs[output_path]

\* convert_pack has returned: the one write is done.
Converted == writes = 1

Collections == {OBJ, REL}

\* Documents a and b agree on every top-level field but the two collections.
SameFrame(a, b) ==
    /\ IsDict(a) /\ IsDict(b)
    /\ KeySet(a) \ Collections = KeySet(b) \ Collections
    /\ \A k \in KeySet(a) \ Collections : DictValue(a, k) = DictValue(b, k)

\* C3: when convertPack succeeds, every top-level field other than the two
\* collections has the input's value in the returned and in the written
\* document, and none is added or removed.
C3_FramePreserved ==
    Converted => SameFrame(pack, InputDoc) /\ SameFrame(WrittenDoc, InputDoc)

\* C3's case: a document with fields before and after its collections, one
\* of them a legacy mapping that was converted, run to the end.
C3_Witness ==
    /\ pc = "exit" /\ exit_status = 0
    /\ KeySet(InputDoc) = {"name", "version", "homepage", OBJ, REL}
    /\ IsDict(DictValue(InputDoc, OBJ)) /\ Len(DictValue(InputDoc, OBJ).v) > 0
    /\ KeySet(WrittenDoc) = KeySet(InputDoc)

\* Field k of document d is a sequence.
IsSequenceField(d, k) == IsDict(d) /\ HasKey(d, k) /\ DictValue(d, k).t = "list"

\* C4: if both collections of the input are already sequences, the returned
\* and the written document hold them unchanged, whatever their elements.
C4_CurrentShapeUntouched ==
    (Converted /\ IsSequenceField(InputDoc, OBJ) /\ IsSequenceField(InputDoc, REL)) =>
        \A k \in Collections :
            /\ PySubscript(pack, k) = Ok(DictValue(InputDoc, k))
            /\ PySubscript(WrittenDoc, k) = Ok(DictValue(InputDoc, k))

\* C4's case: both collections non-empty sequences with elements that are
\* not schemas, and both skip notices printed.
C4_Witness ==
    /\ Converted
    /\ IsSequenceField(InputDoc, OBJ) /\ IsSequenceField(InputDoc, REL)
    /\ Len(DictValue(InputDoc, OBJ).v) = 2 /\ Len(DictValue(InputDoc, REL).v) = 2
    /\ Cardinality({i \in 1..Len(stdout) : stdout[i].line = "already_array"}) = 2

\* C5: a collection field missing from the input is present and [] in the
\* returned and the written document.
C5_AbsenceNormalized ==
    (Converted /\ IsDict(InputDoc)) =>
        \A k \in Collections :
            ~HasKey(InputDoc, k) =>
                /\ PySubscript(pack, k) = Ok(JList(<<>>))
                /\ PySubscript(WrittenDoc, k) = Ok(JList(<<>>))

\* C5's case: a document with neither collection, written with both.
C5_Witness ==
    /\ Converted
    /\ KeySet(InputDoc) \cap Collections = {}
    /\ "name" \in KeySet(InputDoc)
    /\ Collections \subseteq KeySet(WrittenDoc)

\* main has set its paths from a command line with no output path.
DefaultedOutput == pc # "main" /\ Len(argv) = 2

\* C6 as stated: the default output path is <stem>-converted<suffix> in the
\* input's directory, the suffix being the input's.
C6_SuffixFollowsInput ==
    DefaultedOutput =>
        output_path = MkPath(input_path.parent,
                             PathStem(input_path) \o <<"-converted">>
                                 \o PathSuffix(input_path))

\* C6, amended: the default output path is in the input's directory, its
\* stem is the input's stem followed by "-converted", and its suffix is
\* ".json" whatever the input's suffix is.
C6_SuffixIsJson ==
    DefaultedOutput =>
        /\ output_path.parent = input_path.parent
        /\ PathStem(output_path) = PathStem(input_path) \o <<"-converted">>
        /\ PathSuffix(output_path) = <<".", "json">>

\* C6's case: an input named pack.yaml, converted to the end.
C6_Witness ==
    /\ DefaultedOutput
    /\ pc = "exit" /\ exit_status = 0
    /\ PathSuffix(input_path) = <<".", "yaml">>
    /\ WrittenDoc = pack

\* The run's outcomes, as the error taxonomy names them.
MissingArgument == pc = "exit" /\ failed_at = "main"
NotFound == pc = "exit" /\ failed_at = "exists"
MissingRequiredField ==
    pc = "exit" /\ failed_at = "validate" /\ failure = "KeyError"
ConversionFailed ==
    pc = "exit" /\ failed_at \in {"convert_objects", "convert_relationships"}

\* C7: a run whose input path does not exist ends NotFound with exit status
\* 1; a run that ends NotFound or MissingArgument has read, converted and
\* written nothing, and every file is as it was.
C7_NoSideEffectsOnNotFound ==
    /\ (pc = "exit" /\ Len(argv) >= 2 /\ fs0[argv[2]] = Absent) => NotFound
    /\ (NotFound \/ MissingArgument) =>
        /\ exit_status = 1
        /\ reads = 0 /\ writes = 0
        /\ pack = Unset
        /\ fs = fs0

\* C7's case: the input is missing while the output location holds an
\* older file, which the run leaves as it is.
C7_Witness ==
    /\ NotFound
    /\ fs0[output_path] = Stale
    /\ fs[output_path] = Stale
    /\ stdout = <<Line("error_not_found", -1)>>

\* Document d holds a legacy collection with an entry that is no mapping.
HasNonMappingEntry(d) ==
    /\ IsDict(d)
    /\ \E k \in Collections :
         /\ HasKey(d, k)
         /\ IsDict(DictValue(d, k))
         /\ ~AllMappings(DictValue(d, k))

\* C8: whenever an entry of a legacy collection is not a mapping, the
\* conversion fails with an uncaught failure and the run ends without
\* writing the output.
C8_NonMappingEntryFails ==
    (reads = 1 /\ HasNonMappingEntry(InputDoc)) =>
        /\ writes = 0
        /\ pc = "exit" => (ConversionFailed /\ exit_status = 1)

\* The first place of a line in stdout, 0 if it was not printed.
Printed(tag) ==
    IF \E i \in 1..Len(stdout) : stdout[i].line = tag
    THEN CHOOSE i \in 1..Len(stdout) :
            stdout[i].line = tag /\ \A j \in 1..(i - 1) : stdout[j].line # tag
    ELSE 0

\* C9: the one write comes after the read and both inspections and before
\* the summary; it is never repeated or undone; and a converted document
\* lacking name or version ends the run MissingRequiredField, exit status
\* 1, with the output file holding the whole converted document.
C9_WriteBeforeSummary ==
    /\ writes <= 1 /\ reads <= 1
    /\ Converted =>
        /\ reads = 1
        /\ 0 < Printed("reading")
        /\ Printed("reading") < Printed("converting_objects")
        /\ Printed("converting_objects") < Printed("converting_relationships")
        /\ Printed("converting_relationships") < Printed("writing")
        /\ WrittenDoc = pack
    /\ Printed("validation") > 0 => (Converted /\ Printed("writing") < Printed("validation"))
    /\ (pc = "exit" /\ IsDict(pack) /\ ~ConversionFailed
            /\ ~({"name", "version"} \subseteq KeySet(pack))) =>
        /\ MissingRequiredField
        /\ exit_status = 1
        /\ Converted
        /\ WrittenDoc = pack

\* C9's case: a document without `version` whose legacy collection was
\* converted and written over an older output file before the summary failed.
C9_Witness ==
    /\ MissingRequiredField
    /\ "name" \in KeySet(pack) /\ "version" \notin KeySet(pack)
    /\ fs0[output_path] = Stale
    /\ WrittenDoc = pack
    /\ pack # InputDoc

\* C10: when convertPack succeeds, both collections of the returned and of
\* the written document are sequences, whatever the input held there.
C10_OutputIsSequenceShaped ==
    Converted =>
        \A k \in Collections : IsSequenceField(pack, k) /\ IsSequenceField(WrittenDoc, k)

====
